---- MODULE Spec2Model ----
(***************************************************************************)
(* A model of `built` (src/src/lib.rs): the CI-platform detector, the      *)
(* Cargo.lock dependency parser and the generator write_built_file_with_   *)
(* opts, which streams constant declarations into the destination file.    *)
(* The generator is run once, twice in sequence, twice at once, and from a  *)
(* build script that sets its Options.                                     *)
(*                                                                         *)
(* Text that the program only copies is a TLA+ string.  Text that the      *)
(* program compares or slices (package names, versions, feature names)     *)
(* is a sequence of byte values, so that Rust's ordering on String can be  *)
(* computed.                                                               *)
(***************************************************************************)
EXTENDS Integers, Sequences, FiniteSets, TLC

VARIABLES
    fs_file,      \* the file at dst: NoFile, or the sequence of writes it holds
    fs_creatable, \* whether a file can be created/opened for writing at dst
    fs_full,      \* whether the device of dst is out of space
    options,      \* the Options record handed to write_built_file_with_opts
    cfg,          \* the cargo features `built` itself was compiled with
    environ,      \* the process environment of the build script
    pc,           \* per run: the position inside write_built_file_with_opts
    built_file,   \* per run: None, or Some(write offset) of its open handle
    result,       \* per run: Running, Ok(()), Err(kind) or a panic
    written,      \* per run: the writes its handle has made, in order
    spawned,      \* per run: the executables it has launched, in order
    repo,         \* the repository at the manifest location, once looked at
    cargo_lock,   \* the Cargo.lock beside the manifest, once opened
    tools,        \* what `<executable> -V` does, once it has been run
    script,       \* the build script's last call into the crate
    ci_env,       \* detector harness: the snapshot under construction
    ci_pc,        \* detector harness: "setup" or "detected"
    ci_result,    \* detector harness: what detect_from_envmap returned
    lock_doc,     \* parser harness: the lock document
    deps_pc,      \* parser harness: "input" or "parsed"
    deps_result   \* parser harness: what parse_dependencies returned

vars == <<fs_file, fs_creatable, fs_full, options, cfg, environ, pc,
          built_file, result, written, spawned, repo, cargo_lock, tools,
          script,
          ci_env, ci_pc, ci_result, lock_doc, deps_pc, deps_result>>

gen_vars == <<fs_file, fs_creatable, fs_full, options, cfg, environ, pc,
              built_file, result, written, spawned, repo, cargo_lock, tools,
              script>>
\* What a run finds outside the process when it looks.
world_vars == <<repo, cargo_lock, tools>>
ci_vars == <<ci_env, ci_pc, ci_result>>
deps_vars == <<lock_doc, deps_pc, deps_result>>

----------------------------------------------------------------------------
(* Rust values *)

None == <<>>
Some(x) == <<x>>
is_some(o) == Len(o) = 1

\* The build-script processes that may call write_built_file_with_opts.
Runs == {"a", "b"}

\* What a run has not looked at yet, and what it may find when it does.
Unseen == <<"unseen">>
found(known, possible) == IF known = Unseen THEN possible ELSE {known}
\* The values cargo gives RUSTC and RUSTDOC.
Executables == {"rustc", "rustdoc"}

Running == <<"running">>
Ok(v) == <<"Ok", v>>
Err(kind) == <<"Err", kind>>
Panic == <<"panic">>
is_ok(r) == r[1] = "Ok"

\* impl Ord for [u8] / String: bytewise, a proper prefix is smaller.
RECURSIVE str_cmp(_, _)
str_cmp(a, b) ==
    IF a = <<>> /\ b = <<>> THEN 0
    ELSE IF a = <<>> THEN -1
    ELSE IF b = <<>> THEN 1
    ELSE IF Head(a) < Head(b) THEN -1
    ELSE IF Head(a) > Head(b) THEN 1
    ELSE str_cmp(Tail(a), Tail(b))

\* impl Ord for (String, String): the first component, then the second.
tuple_cmp_by_name_only(p, q) == str_cmp(p[1], q[1])
tuple_cmp(p, q) ==
    IF str_cmp(p[1], q[1]) # 0 THEN str_cmp(p[1], q[1]) ELSE str_cmp(p[2], q[2])

\* [T]::join(sep) on byte strings.
RECURSIVE join(_, _)
join(strs, sep) ==
    IF strs = <<>> THEN <<>>
    ELSE IF Len(strs) = 1 THEN strs[1]
    ELSE strs[1] \o sep \o join(Tail(strs), sep)

\* slice::sort on Vec<(String, String)>, as the insertion of each element in
\* turn behind every element not greater than it (the sort is stable).
RECURSIVE insert_pair(_, _)
insert_pair(v, x) ==
    IF v = <<>> THEN <<x>>
    ELSE IF tuple_cmp(x, Head(v)) < 0 THEN <<x>> \o v
    ELSE <<Head(v)>> \o insert_pair(Tail(v), x)

RECURSIVE sort_pairs(_)
sort_pairs(v) ==
    IF v = <<>> THEN <<>>
    ELSE insert_pair(sort_pairs(SubSeq(v, 1, Len(v) - 1)), v[Len(v)])

\* slice::sort on Vec<String>.
RECURSIVE insert_str(_, _)
insert_str(v, x) ==
    IF v = <<>> THEN <<x>>
    ELSE IF str_cmp(x, Head(v)) < 0 THEN <<x>> \o v
    ELSE <<Head(v)>> \o insert_str(Tail(v), x)

RECURSIVE sort_strs(_)
sort_strs(v) ==
    IF v = <<>> THEN <<>>
    ELSE insert_str(sort_strs(SubSeq(v, 1, Len(v) - 1)), v[Len(v)])

----------------------------------------------------------------------------
(* CIPlatform *)

\* impl fmt::Display for CIPlatform
display(p) ==
    CASE p = "Travis" -> "Travis CI"
      [] p = "Circle" -> "CircleCI"
      [] p = "GitLab" -> "GitLab"
      [] p = "AppVeyor" -> "AppVeyor"
      [] p = "Codeship" -> "CodeShip"
      [] p = "Drone" -> "Drone"
      [] p = "Magnum" -> "Magnum"
      [] p = "Semaphore" -> "Semaphore"
      [] p = "Jenkins" -> "Jenkins"
      [] p = "Bamboo" -> "Bamboo"
      [] p = "TFS" -> "Team Foundation Server"
      [] p = "TeamCity" -> "TeamCity"
      [] p = "Buildkite" -> "Buildkite"
      [] p = "Hudson" -> "Hudson"
      [] p = "TaskCluster" -> "TaskCluster"
      [] p = "GoCD" -> "GoCD"
      [] p = "BitBucket" -> "BitBucket"
      [] p = "Generic" -> "Generic CI"

\* HashMap::contains_key
contains_key(envmap, k) == k \in DOMAIN envmap

\* envmap.get(k).map_or(false, |v| v == value)
get_eq(envmap, k, value) == k \in DOMAIN envmap /\ envmap[k] = value

\* The first detect! expansion: the presence-only vendor rules, each an
\* `if envmap.contains_key(k) { return Some(..) }` in source order.
detect_vendor(envmap) ==
    IF contains_key(envmap, "TRAVIS") THEN Some("Travis")
    ELSE IF contains_key(envmap, "CIRCLECI") THEN Some("Circle")
    ELSE IF contains_key(envmap, "GITLAB_CI") THEN Some("GitLab")
    ELSE IF contains_key(envmap, "APPVEYOR") THEN Some("AppVeyor")
    ELSE IF contains_key(envmap, "DRONE") THEN Some("Drone")
    ELSE IF contains_key(envmap, "MAGNUM") THEN Some("Magnum")
    ELSE IF contains_key(envmap, "SEMAPHORE") THEN Some("Semaphore")
    ELSE IF contains_key(envmap, "JENKINS_URL") THEN Some("Jenkins")
    ELSE IF contains_key(envmap, "bamboo_planKey") THEN Some("Bamboo")
    ELSE IF contains_key(envmap, "TF_BUILD") THEN Some("TFS")
    ELSE IF contains_key(envmap, "TEAMCITY_VERSION") THEN Some("TeamCity")
    ELSE IF contains_key(envmap, "BUILDKITE") THEN Some("Buildkite")
    ELSE IF contains_key(envmap, "HUDSON_URL") THEN Some("Hudson")
    ELSE IF contains_key(envmap, "GO_PIPELINE_LABEL") THEN Some("GoCD")
    ELSE IF contains_key(envmap, "BITBUCKET_COMMIT") THEN Some("BitBucket")
    ELSE None

\* The compound rule.
detect_taskcluster(envmap) ==
    IF contains_key(envmap, "TASK_ID") /\ contains_key(envmap, "RUN_ID")
    THEN Some("TaskCluster") ELSE None

\* The second detect! expansion: the exact-value rule.
detect_codeship(envmap) ==
    IF get_eq(envmap, "CI_NAME", "codeship") THEN Some("Codeship") ELSE None

\* The third detect! expansion: the generic variables.
detect_generic(envmap) ==
    IF contains_key(envmap, "CI") THEN Some("Generic")
    ELSE IF contains_key(envmap, "CONTINUOUS_INTEGRATION") THEN Some("Generic")
    ELSE IF contains_key(envmap, "BUILD_NUMBER") THEN Some("Generic")
    ELSE None

\* Option::or, for chaining checks that return early.
or_else(a, b) == IF is_some(a) THEN a ELSE b

\* A slip in the order of the checks: the generic variables are looked at
\* before the vendor ones.
detect_generic_first(envmap) ==
    or_else(detect_generic(envmap),
    or_else(detect_vendor(envmap),
    or_else(detect_taskcluster(envmap),
            detect_codeship(envmap))))

\* A slip in the order of the checks: the exact-value rule is looked at
\* after the generic variables, so CI=true hides CI_NAME=codeship.
detect_codeship_last(envmap) ==
    or_else(detect_vendor(envmap),
    or_else(detect_taskcluster(envmap),
    or_else(detect_generic(envmap),
            detect_codeship(envmap))))

\* A slip in the compound rule: `||` for `&&`.
detect_taskcluster_either(envmap) ==
    or_else(detect_vendor(envmap),
    or_else(IF contains_key(envmap, "TASK_ID") \/ contains_key(envmap, "RUN_ID")
            THEN Some("TaskCluster") ELSE None,
    or_else(detect_codeship(envmap),
            detect_generic(envmap))))

\* CIPlatform::detect_from_envmap: the checks in source order, the first
\* that matches returns.
detect_from_envmap(envmap) ==
    or_else(detect_vendor(envmap),
    or_else(detect_taskcluster(envmap),
    or_else(detect_codeship(envmap),
            detect_generic(envmap))))

----------------------------------------------------------------------------
(* Cargo.lock *)

\* A lock document is <<"invalid">> (not TOML) or <<"toml", package>>, where
\* package is <<"absent">> (no `package` key), <<"scalar">> (not an array) or
\* <<"array", entries>>.  An entry is <<"scalar">> (not a table) or
\* <<"table", name, version>>; a field is <<"absent">>, <<"int">> (a value
\* that is not text) or <<"str", bytes>>.
Returned(v) == <<"ret", v>>

\* package.as_table().unwrap(), package.get(..).unwrap().as_str().unwrap():
\* whether all of them succeed on the entry.
entry_unwraps(e) == e[1] = "table" /\ e[2][1] = "str" /\ e[3][1] = "str"

\* (name.to_owned(), version.to_owned())
entry_pair(e) == <<e[2][2], e[3][2]>>

\* The elements of v that satisfy keep, in order.
RECURSIVE retain_unwrapping(_)
retain_unwrapping(v) ==
    IF v = <<>> THEN <<>>
    ELSE IF entry_unwraps(Head(v)) THEN <<Head(v)>> \o retain_unwrapping(Tail(v))
    ELSE retain_unwrapping(Tail(v))

\* Vec::dedup: consecutive equal elements collapse into the first.
RECURSIVE dedup(_)
dedup(v) ==
    IF Len(v) <= 1 THEN v
    ELSE IF v[1] = v[2] THEN dedup(Tail(v))
    ELSE <<v[1]>> \o dedup(Tail(v))

\* slice::sort_by_key(|p| p.0): by name alone.
RECURSIVE insert_pair_by_name(_, _)
insert_pair_by_name(v, x) ==
    IF v = <<>> THEN <<x>>
    ELSE IF str_cmp(x[1], Head(v)[1]) < 0 THEN <<x>> \o v
    ELSE <<Head(v)>> \o insert_pair_by_name(Tail(v), x)

RECURSIVE sort_pairs_by_name(_)
sort_pairs_by_name(v) ==
    IF v = <<>> THEN <<>>
    ELSE insert_pair_by_name(sort_pairs_by_name(SubSeq(v, 1, Len(v) - 1)),
                             v[Len(v)])

\* A slip: the vector is sorted by name only.
parse_dependencies_by_name(lock_toml_buf) ==
    IF lock_toml_buf[1] # "toml" THEN Panic
    ELSE IF lock_toml_buf[2][1] # "array" THEN Panic
    ELSE LET packages == lock_toml_buf[2][2]
         IN IF \E i \in DOMAIN packages : ~entry_unwraps(packages[i]) THEN Panic
            ELSE Returned(sort_pairs_by_name(
                     [i \in DOMAIN packages |-> entry_pair(packages[i])]))

\* A slip: `deps.dedup()` follows the sort.
parse_dependencies_dedup(lock_toml_buf) ==
    IF lock_toml_buf[1] # "toml" THEN Panic
    ELSE IF lock_toml_buf[2][1] # "array" THEN Panic
    ELSE LET packages == lock_toml_buf[2][2]
         IN IF \E i \in DOMAIN packages : ~entry_unwraps(packages[i]) THEN Panic
            ELSE Returned(dedup(sort_pairs(
                     [i \in DOMAIN packages |-> entry_pair(packages[i])])))

\* A slip: `if let` for `unwrap`, an entry without name or version is skipped.
parse_dependencies_skip(lock_toml_buf) ==
    IF lock_toml_buf[1] # "toml" THEN Panic
    ELSE IF lock_toml_buf[2][1] # "array" THEN Panic
    ELSE LET packages == retain_unwrapping(lock_toml_buf[2][2])
         IN Returned(sort_pairs(
                     [i \in DOMAIN packages |-> entry_pair(packages[i])]))

\* parse_dependencies: every unwrap panics on what it does not expect; the
\* loop pushes one pair per entry, in document order; then deps.sort().
parse_dependencies(lock_toml_buf) ==
    IF lock_toml_buf[1] # "toml" THEN Panic
    ELSE IF lock_toml_buf[2][1] # "array" THEN Panic
    ELSE LET packages == lock_toml_buf[2][2]
         IN IF \E i \in DOMAIN packages : ~entry_unwraps(packages[i]) THEN Panic
            ELSE Returned(sort_pairs(
                     [i \in DOMAIN packages |-> entry_pair(packages[i])]))

----------------------------------------------------------------------------
(* The emitter: what each write_* function writes, and how it ends.         *)

\* The destination holds one element per write call that reached it.
NoFile == <<"no file">>
Hole == <<"hole">>
Marker(which) == <<"//", which>>
\* A doc comment; text is what the program interpolates into it, if anything.
Doc(name, text) == <<"///", name, text>>
Const(name, value) == <<"const", name, value>>

\* What a write_* call did: the writes that reached the file, and its end.
Wrote(toks) == [out |-> toks, res |-> Ok(<<>>)]
Failed(toks, res) == [out |-> toks, res |-> res]

\* io::Write::write_all at the handle's offset: the bytes replace what the
\* file holds there and extend it; a gap before the offset reads as zeros.
write_at(file, offset, toks) ==
    LET end == offset + Len(toks)
        len == IF end > Len(file) /\ toks # <<>> THEN end ELSE Len(file)
    IN [i \in 1..len |->
            IF i > offset /\ i <= end THEN toks[i - offset]
            ELSE IF i <= Len(file) THEN file[i]
            ELSE Hole]

\* fmt_option_str
fmt_option_str(o) == IF is_some(o) THEN <<"Some", o[1]>> ELSE <<"None">>

\* write_ci
write_ci(envmap) ==
    LET p == detect_from_envmap(envmap)
    IN Wrote(<< Doc("CI_PLATFORM", ""),
                Const("CI_PLATFORM",
                      fmt_option_str(IF is_some(p) THEN Some(display(p[1]))
                                     ELSE None)) >>)

\* The constants of write_env, in source order: the name, the variable and
\* how the value is printed.  The first fourteen come from the snapshot, the
\* last three from env::var.
EnvConsts ==
    << <<"PKG_VERSION", "CARGO_PKG_VERSION", "str">>,
       <<"PKG_VERSION_MAJOR", "CARGO_PKG_VERSION_MAJOR", "str">>,
       <<"PKG_VERSION_MINOR", "CARGO_PKG_VERSION_MINOR", "str">>,
       <<"PKG_VERSION_PATCH", "CARGO_PKG_VERSION_PATCH", "str">>,
       <<"PKG_VERSION_PRE", "CARGO_PKG_VERSION_PRE", "str">>,
       <<"PKG_AUTHORS", "CARGO_PKG_AUTHORS", "str">>,
       <<"PKG_NAME", "CARGO_PKG_NAME", "str">>,
       <<"PKG_DESCRIPTION", "CARGO_PKG_DESCRIPTION", "str">>,
       <<"PKG_HOMEPAGE", "CARGO_PKG_HOMEPAGE", "str">>,
       <<"TARGET", "TARGET", "str">>,
       <<"HOST", "HOST", "str">>,
       <<"PROFILE", "PROFILE", "str">>,
       <<"RUSTC", "RUSTC", "str">>,
       <<"RUSTDOC", "RUSTDOC", "str">>,
       <<"OPT_LEVEL", "OPT_LEVEL", "u8">>,
       <<"NUM_JOBS", "NUM_JOBS", "u32">>,
       <<"DEBUG", "DEBUG", "bool">> >>

\* One write! of write_env: `{}` of the value, or of `value == "true"`.
env_const(c, envmap) ==
    Const(c[1], <<c[3], IF c[3] = "bool"
                        THEN (IF envmap[c[2]] = "true" THEN "true" ELSE "false")
                        ELSE envmap[c[2]]>>)

\* write_env: the write! calls in order; the first variable that is not
\* set panics (unwrap), after the writes before it.
write_env(envmap) ==
    LET missing == {i \in DOMAIN EnvConsts : EnvConsts[i][2] \notin DOMAIN envmap}
        stop == IF missing = {} THEN Len(EnvConsts) + 1
                ELSE CHOOSE i \in missing : \A j \in missing : i <= j
        toks == [i \in 1..(stop - 1) |-> env_const(EnvConsts[i], envmap)]
    IN IF missing = {} THEN Wrote(toks) ELSE Failed(toks, Panic)

\* name[prefix.len()..] for the names that start with "CARGO_FEATURE_":
\* "DEFAULT" and "WAYLAND" as bytes.
FeatureSuffix ==
    [k \in {"CARGO_FEATURE_DEFAULT", "CARGO_FEATURE_WAYLAND"} |->
        IF k = "CARGO_FEATURE_DEFAULT" THEN <<68, 69, 70, 65, 85, 76, 84>>
        ELSE <<87, 65, 89, 76, 65, 78, 68>>]
starts_with_prefix(name) == name \in DOMAIN FeatureSuffix

\* The orders in which envmap.keys() may yield the names that pass the
\* starts_with test (a HashMap iterates in no particular order).
KeyOrders(envmap) ==
    LET ks == {k \in DOMAIN envmap : starts_with_prefix(k)}
    IN {o \in [1..Cardinality(ks) -> ks] :
            \A i, j \in DOMAIN o : i # j => o[i] # o[j]}

write_features_unsorted(envmap, keys) ==
    LET features == [i \in DOMAIN keys |-> FeatureSuffix[keys[i]]]
    IN Wrote(<< Doc("FEATURES", ""),
                Const("FEATURES", <<"list", features>>),
                Doc("FEATURES_STR", ""),
                Const("FEATURES_STR", <<"bytes", join(features, <<44, 32>>)>>) >>)

\* write_features, for one iteration order of the keys.
write_features(envmap, keys) ==
    LET features == sort_strs([i \in DOMAIN keys |-> FeatureSuffix[keys[i]]])
    IN Wrote(<< Doc("FEATURES", ""),
                Const("FEATURES", <<"list", features>>),
                Doc("FEATURES_STR", ""),
                Const("FEATURES_STR", <<"bytes", join(features, <<44, 32>>)>>) >>)

\* What process::Command::output() can give: <<"spawn_failed">>, or
\* <<"exited", success, stdout>> with stdout <<"utf8", bytes>> or <<"binary">>.
\* String::pop
pop(v) == IF v = <<>> THEN v ELSE SubSeq(v, 1, Len(v) - 1)

\* get_version_from_cmd: `?` on the launch, unwrap on from_utf8, pop; the
\* exit status is not looked at.
get_version_from_cmd(output) ==
    IF output[1] = "spawn_failed" THEN Err("NotFound")
    ELSE IF output[3][1] # "utf8" THEN Panic
    ELSE Ok(pop(output[3][2]))

\* write_compiler_version: both probes run before the first write.
write_compiler_version(rustc, rustdoc, rustc_output, rustdoc_output) ==
    LET rustc_version == get_version_from_cmd(rustc_output)
        rustdoc_version == get_version_from_cmd(rustdoc_output)
    IN IF ~is_ok(rustc_version) THEN Failed(<<>>, rustc_version)
       ELSE IF ~is_ok(rustdoc_version) THEN Failed(<<>>, rustdoc_version)
       ELSE Wrote(<< Doc("RUSTC_VERSION", rustc),
                     Const("RUSTC_VERSION", <<"bytes", rustc_version[2]>>),
                     Doc("RUSTDOC_VERSION", rustdoc),
                     Const("RUSTDOC_VERSION", <<"bytes", rustdoc_version[2]>>) >>)

\* The executables write_compiler_version launches: the `?` after the first
\* probe returns before the second is started.
launched(rustc, rustdoc, rustc_output) ==
    IF is_ok(get_version_from_cmd(rustc_output)) THEN <<rustc, rustdoc>>
    ELSE <<rustc>>

\* util::get_repo_description for the repository found from the manifest
\* location: none; HEAD described by a tag or a short commit id; a shallow
\* clone whose object lookup fails; a repository failing in another way.
get_repo_description(repository) ==
    CASE repository[1] = "none" -> Ok(None)
      [] repository[1] = "head" -> Ok(Some(repository[2]))
      [] repository[1] = "shallow" -> Err(<<"Odb", "NotFound">>)
      [] repository[1] = "broken" -> Err(<<repository[2], repository[3]>>)

write_git_version_any_error(description, envmap) ==
    LET emit(tag) ==
            Wrote(<< Doc("GIT_VERSION", ""),
                     Const("GIT_VERSION", fmt_option_str(tag)) >>)
    IN IF is_ok(description) THEN emit(description[2])
       ELSE IF is_some(detect_from_envmap(envmap)) THEN emit(None)
       ELSE Failed(<<>>, Panic)

\* write_git_version: description is what util::get_repo_description
\* returned, Ok(tag) or Err(<<class, code>>).
write_git_version(description, envmap) ==
    LET emit(tag) ==
            Wrote(<< Doc("GIT_VERSION", ""),
                     Const("GIT_VERSION", fmt_option_str(tag)) >>)
    IN IF is_ok(description) THEN emit(description[2])
       ELSE IF /\ is_some(detect_from_envmap(envmap))
               /\ description[2][1] = "Odb"
               /\ description[2][2] = "NotFound" THEN emit(None)
       ELSE Failed(<<>>, Panic)

\* get_build_deps: the lock file is <<"missing">>, <<"unreadable">> (not
\* UTF-8) or <<"file", document>>.
get_build_deps(lock_file) ==
    IF lock_file[1] = "missing" THEN Err("NotFound")
    ELSE IF lock_file[1] = "unreadable" THEN Err("InvalidData")
    ELSE LET deps == parse_dependencies(lock_file[2])
         IN IF deps = Panic THEN Panic ELSE Ok(deps[2])

\* format!("{} {}", n, v) for each dependency.
name_and_version(deps) == [i \in DOMAIN deps |-> deps[i][1] \o <<32>> \o deps[i][2]]

\* write_dependencies
write_dependencies(lock_file) ==
    LET deps == get_build_deps(lock_file)
    IN IF ~is_ok(deps) THEN Failed(<<>>, deps)
       ELSE Wrote(<< Doc("DEPENDENCIES", ""),
                     Const("DEPENDENCIES", <<"list", deps[2]>>),
                     Doc("DEPENDENCIES_STR", ""),
                     Const("DEPENDENCIES_STR",
                           <<"bytes", join(name_and_version(deps[2]), <<44, 32>>)>>) >>)

\* write_time, for what time::now_utc().rfc822() printed.
write_time(now) ==
    Wrote(<< Doc("BUILT_TIME_UTC", ""), Const("BUILT_TIME_UTC", <<"str", now>>) >>)

Options_all_enabled ==
    [compiler |-> TRUE, git |-> TRUE, ci |-> TRUE, env |-> TRUE,
     deps |-> TRUE, features |-> TRUE, time |-> TRUE]

\* impl Default for Options
Options_default ==
    [compiler |-> TRUE, git |-> TRUE, ci |-> TRUE, env |-> TRUE,
     deps |-> FALSE, features |-> TRUE, time |-> TRUE]

\* impl Options: the setters.
set_compiler(self, enabled) == [self EXCEPT !.compiler = enabled]
set_git(self, enabled) == [self EXCEPT !.git = enabled]
set_ci(self, enabled) == [self EXCEPT !.ci = enabled]
set_env(self, enabled) == [self EXCEPT !.env = enabled]
set_dependencies(self, enabled) == [self EXCEPT !.deps = enabled]
set_features(self, enabled) == [self EXCEPT !.features = enabled]
set_time(self, enabled) == [self EXCEPT !.time = enabled]

----------------------------------------------------------------------------
(* The detector on its own: a snapshot is filled as get_environment fills   *)
(* it, one insert per variable, and handed to detect_from_envmap.           *)

\* The most variables a snapshot holds.
MaxEnvVars == 3

\* The variables the detector looks at, and one it does not.
CIKeys ==
    {"TRAVIS", "CIRCLECI", "GITLAB_CI", "APPVEYOR", "DRONE", "MAGNUM",
     "SEMAPHORE", "JENKINS_URL", "bamboo_planKey", "TF_BUILD",
     "TEAMCITY_VERSION", "BUILDKITE", "HUDSON_URL", "GO_PIPELINE_LABEL",
     "BITBUCKET_COMMIT", "TASK_ID", "RUN_ID", "CI_NAME", "CI",
     "CONTINUOUS_INTEGRATION", "BUILD_NUMBER"}
HarnessKeys == CIKeys \cup {"HOME"}
HarnessValues(k) == IF k = "CI_NAME" THEN {"codeship", "shippable"} ELSE {"true"}

\* The generator at rest: no run of write_built_file_with_opts is under way.
GenIdle ==
    /\ fs_file = NoFile
    /\ fs_creatable = TRUE
    /\ fs_full = FALSE
    /\ options = Options_default
    /\ cfg = [serialized_git |-> TRUE, serialized_time |-> TRUE]
    /\ environ = <<>>
    /\ pc = [r \in Runs |-> "off"]
    /\ built_file = [r \in Runs |-> None]
    /\ result = [r \in Runs |-> Running]
    /\ written = [r \in Runs |-> <<>>]
    /\ spawned = [r \in Runs |-> <<>>]
    /\ repo = Unseen
    /\ cargo_lock = Unseen
    /\ tools = [exe \in Executables |-> Unseen]
    /\ script = <<"write_built_file_with_opts">>

CIIdle == ci_env = <<>> /\ ci_pc = "setup" /\ ci_result = None
DepsIdle == lock_doc = <<"invalid">> /\ deps_pc = "input" /\ deps_result = Panic

CIInit == GenIdle /\ CIIdle /\ DepsIdle

\* get_environment: envmap.insert(k, v)
EnvInsert(k, v) ==
    /\ ci_pc = "setup"
    /\ k \notin DOMAIN ci_env
    /\ Cardinality(DOMAIN ci_env) < MaxEnvVars
    /\ ci_env' = [x \in DOMAIN ci_env \cup {k} |->
                    IF x = k THEN v ELSE ci_env[x]]
    /\ UNCHANGED <<ci_pc, ci_result>>
    /\ UNCHANGED gen_vars /\ UNCHANGED deps_vars

\* CIPlatform::detect_from_envmap(&envmap)
Detect ==
    /\ ci_pc = "setup"
    /\ ci_result' = detect_from_envmap(ci_env)
    /\ ci_pc' = "detected"
    /\ UNCHANGED ci_env
    /\ UNCHANGED gen_vars /\ UNCHANGED deps_vars

CINext ==
    \/ \E k \in HarnessKeys : \E v \in HarnessValues(k) : EnvInsert(k, v)
    \/ Detect

SpecCI == CIInit /\ [][CINext]_vars

----------------------------------------------------------------------------
(* Claims about the detector, stated over rule lists *)

Rule(need, val, plat) == [need |-> need, val |-> val, plat |-> plat]
Matches(rule, env) ==
    /\ rule.need \subseteq DOMAIN env
    /\ rule.val # <<>> => \A k \in rule.need : env[k] = rule.val[1]

CodeshipRule == Rule({"CI_NAME"}, <<"codeship">>, "Codeship")
PresenceRules ==
    << Rule({"TRAVIS"}, <<>>, "Travis"),
       Rule({"CIRCLECI"}, <<>>, "Circle"),
       Rule({"GITLAB_CI"}, <<>>, "GitLab"),
       Rule({"APPVEYOR"}, <<>>, "AppVeyor"),
       Rule({"DRONE"}, <<>>, "Drone"),
       Rule({"MAGNUM"}, <<>>, "Magnum"),
       Rule({"SEMAPHORE"}, <<>>, "Semaphore"),
       Rule({"JENKINS_URL"}, <<>>, "Jenkins"),
       Rule({"bamboo_planKey"}, <<>>, "Bamboo"),
       Rule({"TF_BUILD"}, <<>>, "TFS"),
       Rule({"TEAMCITY_VERSION"}, <<>>, "TeamCity"),
       Rule({"BUILDKITE"}, <<>>, "Buildkite"),
       Rule({"HUDSON_URL"}, <<>>, "Hudson"),
       Rule({"GO_PIPELINE_LABEL"}, <<>>, "GoCD"),
       Rule({"BITBUCKET_COMMIT"}, <<>>, "BitBucket") >>
TaskClusterRule == Rule({"TASK_ID", "RUN_ID"}, <<>>, "TaskCluster")
GenericRules ==
    << Rule({"CI"}, <<>>, "Generic"),
       Rule({"CONTINUOUS_INTEGRATION"}, <<>>, "Generic"),
       Rule({"BUILD_NUMBER"}, <<>>, "Generic") >>

Range(f) == {f[i] : i \in DOMAIN f}
VendorRules == Range(PresenceRules) \cup {CodeshipRule, TaskClusterRule}
AllRules == VendorRules \cup Range(GenericRules)

\* The platform of the first rule of the list that matches.
FirstMatch(rules, env) ==
    LET hits == {i \in DOMAIN rules : Matches(rules[i], env)}
    IN IF hits = {} THEN None
       ELSE Some(rules[CHOOSE i \in hits : \A j \in hits : i <= j].plat)

\* The order the claim states, and the order of the source.
ClaimedOrder ==
    <<CodeshipRule>> \o PresenceRules \o <<TaskClusterRule>> \o GenericRules
SourceOrder ==
    PresenceRules \o <<TaskClusterRule, CodeshipRule>> \o GenericRules

\* C2 as stated: the result is the first match in the order exact-value,
\* presence-only, TaskCluster, generic; with CI_NAME=codeship it is Codeship
\* whatever else is set.
C2_ClaimedOrder ==
    ci_pc = "detected" =>
        /\ ci_result = FirstMatch(ClaimedOrder, ci_env)
        /\ Matches(CodeshipRule, ci_env) => ci_result = Some("Codeship")

\* C2, amended: the result is the first match in the order presence-only
\* rules (as listed), TaskCluster, CI_NAME=codeship, generic; with
\* CI_NAME=codeship the result is Codeship exactly when no presence-only
\* variable is set and TASK_ID and RUN_ID are not both set.
C2_SourceOrder ==
    ci_pc = "detected" =>
        /\ ci_result = FirstMatch(SourceOrder, ci_env)
        /\ Matches(CodeshipRule, ci_env) =>
              (ci_result = Some("Codeship") <=>
                  /\ \A i \in DOMAIN PresenceRules :
                        ~Matches(PresenceRules[i], ci_env)
                  /\ ~Matches(TaskClusterRule, ci_env))

\* A snapshot where the exact-value rule and a later-listed presence-only
\* rule both match, and the presence-only rule has won.
C2_Witness ==
    /\ ci_pc = "detected"
    /\ Matches(CodeshipRule, ci_env)
    /\ "BITBUCKET_COMMIT" \in DOMAIN ci_env
    /\ ci_result = Some("BitBucket")

\* C3: a snapshot whose only CI variables are those of one indicator yields
\* that indicator's platform; a snapshot no rule matches yields None.
C3_SingleIndicator ==
    ci_pc = "detected" =>
        /\ \A rule \in AllRules :
              (Matches(rule, ci_env) /\ DOMAIN ci_env \cap CIKeys = rule.need)
                  => ci_result = Some(rule.plat)
        /\ (\A rule \in AllRules : ~Matches(rule, ci_env)) => ci_result = None

\* The compound indicator alone, beside a variable that is no CI variable.
C3_Witness ==
    /\ ci_pc = "detected"
    /\ DOMAIN ci_env = {"TASK_ID", "RUN_ID", "HOME"}
    /\ ci_result = Some("TaskCluster")

\* C4: Generic is never the result when a vendor-specific rule matches.
C4_VendorBeforeGeneric ==
    ci_pc = "detected" =>
        ((\E rule \in VendorRules : Matches(rule, ci_env))
            => ci_result # Some("Generic"))

\* A vendor rule and a generic variable together.
C4_Witness ==
    /\ ci_pc = "detected"
    /\ {"TASK_ID", "RUN_ID", "CI"} \subseteq DOMAIN ci_env
    /\ ci_result = Some("TaskCluster")

----------------------------------------------------------------------------
(* The parser on its own: a lock document is drawn and parsed.              *)

\* The most [[package]] entries of a lock document.
MaxPackages == 3

\* "a", "ab", "b"; "10", "9" (bytewise "10" sorts before "9").
PackageNames == {<<97>>, <<97, 98>>, <<98>>}
PackageVersions == {<<49, 48>>, <<57>>}

Field(strs) == {<<"absent">>, <<"int">>} \cup {<<"str", x>> : x \in strs}
LockEntries ==
    {<<"scalar">>} \cup
    {<<"table", n, v>> : n \in Field(PackageNames), v \in Field(PackageVersions)}
LockDocs ==
    {<<"invalid">>, <<"toml", <<"absent">>>>, <<"toml", <<"scalar">>>>} \cup
    {<<"toml", <<"array", es>>>> :
        es \in UNION {[1..n -> LockEntries] : n \in 0..MaxPackages}}

DepsInit ==
    /\ GenIdle /\ CIIdle
    /\ lock_doc \in LockDocs
    /\ deps_pc = "input"
    /\ deps_result = Panic

\* parse_dependencies(&lock_buf)
Parse ==
    /\ deps_pc = "input"
    /\ deps_result' = parse_dependencies(lock_doc)
    /\ deps_pc' = "parsed"
    /\ UNCHANGED lock_doc
    /\ UNCHANGED gen_vars /\ UNCHANGED ci_vars

DepsNext == Parse

SpecDeps == DepsInit /\ [][DepsNext]_vars

----------------------------------------------------------------------------
(* Claims about the parser *)

IsArray(doc) == doc[1] = "toml" /\ doc[2][1] = "array"
Entries(doc) == doc[2][2]
TextEntry(e) == e[1] = "table" /\ e[2][1] = "str" /\ e[3][1] = "str"
WellFormed(doc) ==
    IsArray(doc) /\ \A i \in DOMAIN Entries(doc) : TextEntry(Entries(doc)[i])
DeclaredPairs(doc) ==
    [i \in DOMAIN Entries(doc) |-> <<Entries(doc)[i][2][2], Entries(doc)[i][3][2]>>]
Count(seq, x) == Cardinality({i \in DOMAIN seq : seq[i] = x})
SameBag(s, t) ==
    /\ Len(s) = Len(t)
    /\ \A i \in DOMAIN s : Count(s, s[i]) = Count(t, s[i])

\* a comes strictly before b in the lexicographic order of byte strings.
StrPrecedes(a, b) ==
    \E k \in 1..Len(b) :
        /\ Len(a) >= k - 1
        /\ SubSeq(a, 1, k - 1) = SubSeq(b, 1, k - 1)
        /\ Len(a) = k - 1 \/ a[k] < b[k]
PairLeq(p, q) ==
    \/ StrPrecedes(p[1], q[1])
    \/ p[1] = q[1] /\ (StrPrecedes(p[2], q[2]) \/ p[2] = q[2])

\* The document with its entries rearranged by the permutation f.
Permuted(doc, f) ==
    <<"toml", <<"array", [i \in DOMAIN Entries(doc) |-> Entries(doc)[f[i]]]>>>>

\* C5: for a well-formed document the result holds the pairs of all entries,
\* ordered by name and then by version, and every rearrangement of the
\* entries parses to the same result.
C5_SortedAndOrderIndependent ==
    (deps_pc = "parsed" /\ WellFormed(lock_doc)) =>
        /\ deps_result[1] = "ret"
        /\ SameBag(deps_result[2], DeclaredPairs(lock_doc))
        /\ \A i, j \in DOMAIN deps_result[2] :
              i < j => PairLeq(deps_result[2][i], deps_result[2][j])
        /\ \A f \in Permutations(DOMAIN Entries(lock_doc)) :
              parse_dependencies(Permuted(lock_doc, f)) = deps_result

\* "b 9", "a 9", "a 10" parse to "a 10", "a 9", "b 9".
C5_Witness ==
    /\ deps_pc = "parsed"
    /\ lock_doc = <<"toml", <<"array",
          << <<"table", <<"str", <<98>>>>, <<"str", <<57>>>>>>,
             <<"table", <<"str", <<97>>>>, <<"str", <<57>>>>>>,
             <<"table", <<"str", <<97>>>>, <<"str", <<49, 48>>>>>> >> >>>>
    /\ deps_result = Returned(<< <<<<97>>, <<49, 48>>>>,
                                 <<<<97>>, <<57>>>>,
                                 <<<<98>>, <<57>>>> >>)

\* C6 as stated: no (name, version) pair occurs twice in the result.
C6_NoDuplicates ==
    (deps_pc = "parsed" /\ deps_result[1] = "ret") =>
        \A i, j \in DOMAIN deps_result[2] :
            i # j => deps_result[2][i] # deps_result[2][j]

\* C6, amended: the result holds each pair once per entry that declares it,
\* so it is free of duplicates exactly when the entries are.
C6_OncePerEntry ==
    (deps_pc = "parsed" /\ deps_result[1] = "ret") =>
        /\ Len(deps_result[2]) = Len(Entries(lock_doc))
        /\ \A i \in DOMAIN Entries(lock_doc) :
              Count(deps_result[2], DeclaredPairs(lock_doc)[i])
                  = Count(DeclaredPairs(lock_doc), DeclaredPairs(lock_doc)[i])

\* A document that declares "a 9" twice, and a result that lists it twice.
C6_Witness ==
    /\ deps_pc = "parsed"
    /\ IsArray(lock_doc)
    /\ Count(Entries(lock_doc), <<"table", <<"str", <<97>>>>, <<"str", <<57>>>>>>) = 2
    /\ deps_result[1] = "ret"
    /\ Count(deps_result[2], <<<<97>>, <<57>>>>) = 2

\* C7: a document with an entry that lacks a text name or a text version is
\* never parsed to a list.
C7_DefectiveEntryFails ==
    (/\ deps_pc = "parsed"
     /\ IsArray(lock_doc)
     /\ \E i \in DOMAIN Entries(lock_doc) : ~TextEntry(Entries(lock_doc)[i]))
        => deps_result = Panic

\* Two sound entries around one without a version.
C7_Witness ==
    /\ deps_pc = "parsed"
    /\ IsArray(lock_doc)
    /\ Len(Entries(lock_doc)) = 3
    /\ TextEntry(Entries(lock_doc)[1])
    /\ Entries(lock_doc)[2] = <<"table", <<"str", <<97>>>>, <<"absent">>>>
    /\ TextEntry(Entries(lock_doc)[3])
    /\ deps_result = Panic

----------------------------------------------------------------------------
(* write_built_file_with_opts, one step per statement that touches the      *)
(* destination or can fail.                                                 *)

\* What cargo sets for a build script (the values of the set_env example).
CargoEnv ==
    [k \in {EnvConsts[i][2] : i \in DOMAIN EnvConsts} |->
        CASE k = "CARGO_PKG_VERSION" -> "1.2.3-rc1"
          [] k = "CARGO_PKG_VERSION_MAJOR" -> "1"
          [] k = "CARGO_PKG_VERSION_MINOR" -> "2"
          [] k = "CARGO_PKG_VERSION_PATCH" -> "3"
          [] k = "CARGO_PKG_VERSION_PRE" -> "rc1"
          [] k = "CARGO_PKG_AUTHORS" -> "Joe:Bob:Harry:Potter"
          [] k = "CARGO_PKG_NAME" -> "testbox"
          [] k = "CARGO_PKG_DESCRIPTION" -> "xobtset"
          [] k = "CARGO_PKG_HOMEPAGE" -> "localhost"
          [] k = "TARGET" -> "x86_64-apple-darwin"
          [] k = "HOST" -> "x86_64-apple-darwin"
          [] k = "PROFILE" -> "debug"
          [] k = "RUSTC" -> "rustc"
          [] k = "RUSTDOC" -> "rustdoc"
          [] k = "OPT_LEVEL" -> "0"
          [] k = "NUM_JOBS" -> "8"
          [] k = "DEBUG" -> "true"]

\* The environments a run is started in: cargo's variables, of which one may
\* be missing, the two feature variables, and no CI variable, a vendor's, or
\* a generic one.
MaybeMissing == {"CARGO_PKG_VERSION", "CARGO_PKG_NAME", "RUSTC", "RUSTDOC", "DEBUG"}
CIMarkers == {{}, {"TRAVIS"}, {"CI"}}
Environments ==
    {[k \in ((DOMAIN CargoEnv \cup DOMAIN FeatureSuffix) \ gone) \cup ci |->
        IF k \in DOMAIN CargoEnv THEN CargoEnv[k] ELSE "true"] :
        gone \in {{}} \cup {{k} : k \in MaybeMissing}, ci \in CIMarkers}

\* What was at dst before the run, if anything.
OldContent == << <<"old", "line 1">>, <<"old", "line 2">> >>

\* "1.15\n" on stdout and success; nothing and a failure status; bytes that
\* are not UTF-8; no process at all.
ProbeOutputs ==
    {<<"spawn_failed">>,
     <<"exited", TRUE, <<"utf8", <<49, 46, 49, 53, 10>>>>>>,
     <<"exited", FALSE, <<"utf8", <<>>>>>>,
     <<"exited", TRUE, <<"binary">>>>}

\* The repository a run may find: none, HEAD tagged foobar, a shallow
\* clone, or one whose lookup fails with another class or code.
Repositories ==
    {<<"none">>, <<"head", "foobar">>, <<"shallow">>,
     <<"broken", "Odb", "GenericError">>,
     <<"broken", "Reference", "NotFound">>}

\* What util::get_repo_description returns: no repository or nothing to
\* describe, a tag, or a git2 error of some class and code.
RepoDescriptions ==
    {Ok(None), Ok(Some("foobar")),
     Err(<<"Odb", "NotFound">>), Err(<<"Odb", "GenericError">>),
     Err(<<"Reference", "NotFound">>)}

\* The Cargo.lock beside the manifest.
LockFiles ==
    {<<"missing">>, <<"unreadable">>, <<"file", <<"invalid">>>>,
     <<"file", <<"toml", <<"array",
          << <<"table", <<"str", <<98>>>>, <<"str", <<57>>>>>>,
             <<"table", <<"str", <<97>>>>, <<"absent">>>> >> >>>>>>,
     <<"file", <<"toml", <<"array",
          << <<"table", <<"str", <<98>>>>, <<"str", <<57>>>>>>,
             <<"table", <<"str", <<97>>>>, <<"str", <<57>>>>>> >> >>>>>>}

Times == {"Tue, 14 Feb 2017 01:12:35 GMT", "Wed, 15 Feb 2017 09:00:00 GMT"}

\* The statements of write_built_file_with_opts in source order.
next_step_deps_first(step) ==
    CASE step = "create" -> "header"
      [] step = "header" -> "deps"
      [] step = "deps" -> "ci"
      [] step = "ci" -> "env"
      [] step = "env" -> "features"
      [] step = "features" -> "compiler"
      [] step = "compiler" -> "git"
      [] step = "git" -> "time"
      [] step = "time" -> "footer"
      [] step = "footer" -> "done"

next_step_no_footer(step) ==
    CASE step = "create" -> "header"
      [] step = "header" -> "ci"
      [] step = "ci" -> "env"
      [] step = "env" -> "features"
      [] step = "features" -> "compiler"
      [] step = "compiler" -> "git"
      [] step = "git" -> "deps"
      [] step = "deps" -> "time"
      [] step = "time" -> "done"
      [] step = "footer" -> "done"

next_step(step) ==
    CASE step = "create" -> "header"
      [] step = "header" -> "ci"
      [] step = "ci" -> "env"
      [] step = "env" -> "features"
      [] step = "features" -> "compiler"
      [] step = "compiler" -> "git"
      [] step = "git" -> "deps"
      [] step = "deps" -> "time"
      [] step = "time" -> "footer"
      [] step = "footer" -> "done"

\* `if options.ci || options.env || options.features || options.compiler`
in_env_block(o) == o.ci \/ o.env \/ o.features \/ o.compiler

Init ==
    /\ CIIdle /\ DepsIdle
    /\ fs_file \in {NoFile, OldContent}
    /\ fs_creatable \in BOOLEAN
    /\ fs_full \in BOOLEAN
    /\ options \in [compiler : BOOLEAN, git : BOOLEAN, ci : BOOLEAN,
                    env : BOOLEAN, deps : BOOLEAN, features : BOOLEAN,
                    time : BOOLEAN]
    /\ cfg \in [serialized_git : BOOLEAN, serialized_time : BOOLEAN]
    /\ environ \in Environments
    /\ pc = [r \in Runs |-> IF r = "a" THEN "create" ELSE "off"]
    /\ built_file = [r \in Runs |-> None]
    /\ result = [r \in Runs |-> Running]
    /\ written = [r \in Runs |-> <<>>]
    /\ spawned = [r \in Runs |-> <<>>]
    /\ repo = Unseen
    /\ cargo_lock = Unseen
    /\ tools = [exe \in Executables |-> Unseen]
    /\ script = <<"write_built_file_with_opts">>

\* The run returns: Ok(()), an error through `?`, or an unwinding panic.
Return(r, res) ==
    /\ pc' = [pc EXCEPT ![r] = "done"]
    /\ result' = [result EXCEPT ![r] = res]

\* The writes of one statement reach the file, and the run goes on or ends.
Apply(r, outcome) ==
    /\ fs_file' = write_at(fs_file, built_file[r][1], outcome.out)
    /\ built_file' = [built_file EXCEPT ![r] = Some(@[1] + Len(outcome.out))]
    /\ written' = [written EXCEPT ![r] = @ \o outcome.out]
    /\ IF ~is_ok(outcome.res) THEN Return(r, outcome.res)
       ELSE IF next_step(pc[r]) = "done" THEN Return(r, Ok(<<>>))
       ELSE pc' = [pc EXCEPT ![r] = next_step(pc[r])] /\ UNCHANGED result
    /\ UNCHANGED <<fs_creatable, fs_full, options, cfg, environ, script>>
    /\ UNCHANGED ci_vars /\ UNCHANGED deps_vars

\* A statement that launches nothing and reads neither the repository nor
\* the lock file.
Inside(r, outcome) ==
    /\ Apply(r, outcome)
    /\ UNCHANGED world_vars /\ UNCHANGED spawned

\* A statement behind a switch that is off.
Skip(r) == Inside(r, Wrote(<<>>))

\* fs::File::create(&dst)?: open for writing, create if absent, truncate.
Create(r) ==
    /\ pc[r] = "create"
    /\ IF fs_creatable
       THEN /\ fs_file' = <<>>
            /\ built_file' = [built_file EXCEPT ![r] = Some(0)]
            /\ pc' = [pc EXCEPT ![r] = next_step("create")]
            /\ UNCHANGED result
       ELSE /\ Return(r, Err("PermissionDenied"))
            /\ UNCHANGED <<fs_file, built_file>>
    /\ UNCHANGED <<fs_creatable, fs_full, options, cfg, environ, script>>
    /\ UNCHANGED <<written, spawned>> /\ UNCHANGED world_vars
    /\ UNCHANGED ci_vars /\ UNCHANGED deps_vars

\* built_file.write_all(<the BELOW marker>)?
WriteHeader(r) ==
    /\ pc[r] = "header"
    /\ Inside(r, IF fs_full THEN Failed(<<>>, Err("StorageFull"))
                 ELSE Wrote(<<Marker("BELOW")>>))

\* o!(ci, write_ci(&envmap, &mut built_file)?)
WriteCi(r) ==
    /\ pc[r] = "ci"
    /\ IF in_env_block(options) /\ options.ci
       THEN Inside(r, write_ci(environ)) ELSE Skip(r)

\* o!(env, write_env(&envmap, &mut built_file)?)
WriteEnv(r) ==
    /\ pc[r] = "env"
    /\ IF in_env_block(options) /\ options.env
       THEN Inside(r, write_env(environ)) ELSE Skip(r)

\* o!(features, write_features(&envmap, &mut built_file)?)
WriteFeatures(r) ==
    /\ pc[r] = "features"
    /\ IF in_env_block(options) /\ options.features
       THEN \E keys \in KeyOrders(environ) : Inside(r, write_features(environ, keys))
       ELSE Skip(r)

\* o!(compiler, write_compiler_version(envmap.get("RUSTC").unwrap(),
\*                                     envmap.get("RUSTDOC").unwrap(), ..)?)
WriteCompilerVersion(r) ==
    /\ pc[r] = "compiler"
    /\ IF in_env_block(options) /\ options.compiler
       THEN IF {"RUSTC", "RUSTDOC"} \subseteq DOMAIN environ
            THEN \E rustc_output \in found(tools[environ["RUSTC"]], ProbeOutputs),
                    rustdoc_output \in found(tools[environ["RUSTDOC"]], ProbeOutputs) :
                    LET run == launched(environ["RUSTC"], environ["RUSTDOC"],
                                        rustc_output)
                    IN /\ Apply(r, write_compiler_version(environ["RUSTC"],
                                                          environ["RUSTDOC"],
                                                          rustc_output,
                                                          rustdoc_output))
                       /\ spawned' = [spawned EXCEPT ![r] = @ \o run]
                       /\ tools' = [exe \in Executables |->
                                       IF exe = environ["RUSTC"] THEN rustc_output
                                       ELSE IF Len(run) = 2 THEN rustdoc_output
                                       ELSE tools[exe]]
                       /\ UNCHANGED <<repo, cargo_lock>>
            ELSE Inside(r, Failed(<<>>, Panic))
       ELSE Skip(r)

\* #[cfg(feature="serialized_git")] o!(git, write_git_version(..)?), inside
\* the block that holds envmap.
WriteGitVersion(r) ==
    /\ pc[r] = "git"
    /\ IF in_env_block(options) /\ cfg.serialized_git /\ options.git
       THEN \E repository \in found(repo, Repositories) :
                /\ Apply(r, write_git_version(get_repo_description(repository),
                                              environ))
                /\ repo' = repository
                /\ UNCHANGED <<cargo_lock, tools, spawned>>
       ELSE Skip(r)

\* o!(deps, write_dependencies(&manifest_location, &mut built_file)?)
WriteDependencies(r) ==
    /\ pc[r] = "deps"
    /\ IF options.deps
       THEN \E lock_file \in found(cargo_lock, LockFiles) :
                /\ Apply(r, write_dependencies(lock_file))
                /\ cargo_lock' = lock_file
                /\ UNCHANGED <<repo, tools, spawned>>
       ELSE Skip(r)

\* #[cfg(feature="serialized_time")] o!(time, write_time(&mut built_file)?)
WriteTime(r) ==
    /\ pc[r] = "time"
    /\ IF cfg.serialized_time /\ options.time
       THEN \E now \in Times : Inside(r, write_time(now))
       ELSE Skip(r)

\* built_file.write_all(<the ABOVE marker>)?; Ok(())
WriteFooter(r) ==
    /\ pc[r] = "footer"
    /\ Inside(r, Wrote(<<Marker("ABOVE")>>))

Next ==
    \E r \in Runs :
        \/ Create(r)
        \/ WriteHeader(r)
        \/ WriteCi(r)
        \/ WriteEnv(r)
        \/ WriteFeatures(r)
        \/ WriteCompilerVersion(r)
        \/ WriteGitVersion(r)
        \/ WriteDependencies(r)
        \/ WriteTime(r)
        \/ WriteFooter(r)

Spec == Init /\ [][Next]_vars

----------------------------------------------------------------------------
(* Claims about the generator *)

\* Where a declaration belongs in the order of the emitted groups: 0 for
\* the begin marker, 1 CI platform, 2 environment fields, 3 features,
\* 4 compiler and doc-tool versions, 5 VCS descriptor, 6 dependencies,
\* 7 timestamp, 8 for the end marker.
EnvNames == {EnvConsts[i][1] : i \in DOMAIN EnvConsts}
GroupNames ==
    << {"CI_PLATFORM"}, EnvNames, {"FEATURES", "FEATURES_STR"},
       {"RUSTC_VERSION", "RUSTDOC_VERSION"}, {"GIT_VERSION"},
       {"DEPENDENCIES", "DEPENDENCIES_STR"}, {"BUILT_TIME_UTC"} >>
GroupSwitch(o) == <<o.ci, o.env, o.features, o.compiler, o.git, o.deps, o.time>>
IsMarker(tok) == tok[1] = "//"
IsDeclaration(tok) == tok[1] \in {"///", "const"}
Rank(tok) ==
    IF IsMarker(tok) THEN (IF tok[2] = "BELOW" THEN 0 ELSE 8)
    ELSE IF IsDeclaration(tok)
         THEN CHOOSE g \in DOMAIN GroupNames : tok[2] \in GroupNames[g]
    ELSE -1
Emitted(file, g) ==
    \E i \in DOMAIN file : IsDeclaration(file[i]) /\ file[i][2] \in GroupNames[g]

\* The whole block: begin marker first, end marker last, declarations only
\* between them.
CompleteBlock(file) ==
    /\ file # NoFile
    /\ Len(file) >= 2
    /\ file[1] = Marker("BELOW")
    /\ file[Len(file)] = Marker("ABOVE")
    /\ \A i \in 2..(Len(file) - 1) : IsDeclaration(file[i])

\* The begin marker and declarations behind it, or nothing; no end marker.
TruncatedBlock(file) ==
    /\ file # NoFile
    /\ file # <<>> => file[1] = Marker("BELOW")
    /\ \A i \in 2..Len(file) : IsDeclaration(file[i])

\* C1 as stated: a call that finds a file at dst returns the already-exists
\* error and leaves the file as it was.
C1_ExclusiveCreate ==
    [][\A r \in Runs :
          (pc[r] = "create" /\ pc'[r] # "create" /\ fs_creatable /\ fs_file # NoFile)
              => (result'[r] = Err("AlreadyExists") /\ fs_file' = fs_file)]_vars

\* C8: while a run writes, the file starts with the begin marker, the end
\* marker is nowhere but last, no write belongs to an earlier group than a
\* write before it, and only groups whose switch is on are written; a
\* successful run ends with the end marker.
C8_FixedOrder ==
    \A r \in Runs :
        is_some(built_file[r]) =>
            /\ \A i, j \in DOMAIN fs_file :
                  i < j => /\ Rank(fs_file[i]) <= Rank(fs_file[j])
                           /\ Rank(fs_file[i]) >= 0
                           /\ Rank(fs_file[j]) > 0
                           /\ Rank(fs_file[i]) < 8
            /\ fs_file # <<>> => fs_file[1] = Marker("BELOW")
            /\ is_ok(result[r]) => fs_file[Len(fs_file)] = Marker("ABOVE")
            /\ \A g \in DOMAIN GroupNames :
                  Emitted(fs_file, g) => GroupSwitch(options)[g]

\* A successful run with every group written.
C8_Witness ==
    /\ is_ok(result["a"])
    /\ \A g \in DOMAIN GroupNames : Emitted(fs_file, g)
    /\ fs_file[Len(fs_file)] = Marker("ABOVE")

\* C9 as stated: in a successful run of a build with both optional
\* capabilities compiled in, a group is in the output exactly when its
\* switch is on.
C9_SwitchIffEmitted ==
    \A r \in Runs :
        (is_ok(result[r]) /\ cfg.serialized_git /\ cfg.serialized_time) =>
            \A g \in DOMAIN GroupNames :
                Emitted(fs_file, g) <=> GroupSwitch(options)[g]

\* C10 as stated: a run that has ended wrote the whole block or nothing; in
\* particular it never leaves a file that holds the begin marker or some
\* declarations without the end marker.
C10_AllOrNothing ==
    \A r \in Runs :
        (pc[r] = "done" /\ is_some(built_file[r]) /\ fs_file # <<>>)
            => CompleteBlock(fs_file)

\* C10, amended: a run that returns Ok wrote the whole block, and only
\* such a run writes the end marker; a run that fails in File::create
\* leaves the destination as it found it; a run that fails later leaves a
\* truncated block: the begin marker (unless that write failed) and the
\* declarations written before the failure, without the end marker.
C10_CompleteOrTruncated ==
    \A r \in Runs :
        pc[r] = "done" =>
            /\ is_ok(result[r]) => CompleteBlock(fs_file)
            /\ (~is_ok(result[r]) /\ ~is_some(built_file[r]))
                  => fs_file \in {NoFile, OldContent}
            /\ (~is_ok(result[r]) /\ is_some(built_file[r]))
                  => TruncatedBlock(fs_file)

\* A run over an existing file that panics on a missing variable after
\* the begin marker and some of the environment fields.
C10_Witness ==
    /\ pc["a"] = "done"
    /\ result["a"] = Panic
    /\ "CARGO_PKG_NAME" \notin DOMAIN environ
    /\ Len(fs_file) > 2
    /\ fs_file[1] = Marker("BELOW")
    /\ fs_file[Len(fs_file)][2] = "PKG_AUTHORS"

\* The values of the declarations of one constant among some writes.
Declared(file, name) ==
    IF file = NoFile THEN {}
    ELSE {file[i][3] : i \in {j \in DOMAIN file :
                                 file[j][1] = "const" /\ file[j][2] = name}}

\* C11: for a run that looked at the repository: with no repository, or
\* with a shallow clone's object-database not-found error while a CI
\* platform is detected, GIT_VERSION is declared None and the run goes on
\* (if it fails at all, it fails later, at the lock file); with that error
\* and no CI platform, or with an error of another class or code whatever
\* the environment, the run panics and has declared no GIT_VERSION.
C11_VcsFailurePolicy ==
    \A r \in Runs :
        (pc[r] # "off" /\ repo # Unseen) =>
            LET ci == is_some(detect_from_envmap(environ))
                emitted == Declared(written[r], "GIT_VERSION")
                goes_on == /\ emitted = {<<"None">>}
                           /\ (pc[r] = "done" /\ ~is_ok(result[r]))
                                 => cargo_lock # Unseen
                aborted == /\ pc[r] = "done"
                           /\ result[r] = Panic
                           /\ emitted = {}
            IN /\ repo = <<"none">> => goes_on
               /\ (repo = <<"shallow">> /\ ci) => goes_on
               /\ (repo = <<"shallow">> /\ ~ci) => aborted
               /\ repo[1] = "broken" => aborted

\* A run on a CI platform that found a shallow clone, declared GIT_VERSION
\* None and returned Ok.
C11_Witness ==
    /\ repo = <<"shallow">>
    /\ is_some(detect_from_envmap(environ))
    /\ is_ok(result["a"])
    /\ Declared(fs_file, "GIT_VERSION") = {<<"None">>}

\* C12 as stated: when a CI platform is detected in the environment, a
\* GIT_VERSION that a run declares is None, whatever the repository.
C12_NoneUnderCI ==
    \A r \in Runs :
        is_some(detect_from_envmap(environ))
            => Declared(written[r], "GIT_VERSION") \subseteq {<<"None">>}

\* A probe that could not be launched, or that exited with a failure status.
ProbeFailed(output) ==
    \/ output[1] = "spawn_failed"
    \/ output[1] = "exited" /\ ~output[2]

\* C13 as stated: a run that launched a probe which could not be started or
\* exited with a failure status has ended with an error and has declared
\* neither RUSTC_VERSION nor RUSTDOC_VERSION; and no run launches an
\* executable twice.
C13_ProbeFatal ==
    \A r \in Runs :
        /\ (\E i \in DOMAIN spawned[r] : ProbeFailed(tools[spawned[r][i]]))
              => /\ pc[r] = "done"
                 /\ result[r][1] = "Err"
                 /\ Declared(written[r], "RUSTC_VERSION") = {}
                 /\ Declared(written[r], "RUSTDOC_VERSION") = {}
        /\ \A i, j \in DOMAIN spawned[r] :
              spawned[r][i] = spawned[r][j] => i = j

----------------------------------------------------------------------------
(* The build script run twice: cargo starts it again after the first run    *)
(* has ended, with the same Options and environment, and with the           *)
(* repository, the executables and the packages of the lock file as the     *)
(* first run found them.                                                    *)

TwiceInit ==
    /\ Init
    /\ fs_file = NoFile
    /\ fs_creatable
    /\ ~fs_full

\* The second run calls write_built_file_with_opts.
Rerun ==
    /\ pc["a"] = "done"
    /\ pc["b"] = "off"
    /\ pc' = [pc EXCEPT !["b"] = "create"]
    /\ UNCHANGED <<fs_file, fs_creatable, fs_full, options, cfg, environ,
                   built_file, result, written, spawned, script>>
    /\ UNCHANGED world_vars
    /\ UNCHANGED ci_vars /\ UNCHANGED deps_vars

\* The lock files that list the packages of lock_file in another order.
reordered(lock_file) ==
    IF lock_file[1] = "file" /\ lock_file[2][1] = "toml"
          /\ lock_file[2][2][1] = "array"
    THEN LET entries == lock_file[2][2][2]
             orders == {o \in [DOMAIN entries -> DOMAIN entries] :
                           \A i, j \in DOMAIN o : i # j => o[i] # o[j]}
         IN {<<"file", <<"toml", <<"array",
                 [i \in DOMAIN entries |-> entries[o[i]]]>>>>>> :
                 o \in orders} \ {lock_file}
    ELSE {}

\* Between the runs the lock file is written anew, the same packages in
\* another order.
RewriteLock ==
    /\ pc["a"] = "done"
    /\ pc["b"] = "off"
    /\ cargo_lock # Unseen
    /\ cargo_lock' \in reordered(cargo_lock)
    /\ UNCHANGED <<fs_file, fs_creatable, fs_full, options, cfg, environ, pc,
                   built_file, result, written, spawned, script, repo, tools>>
    /\ UNCHANGED ci_vars /\ UNCHANGED deps_vars

TwiceNext == Next \/ Rerun \/ RewriteLock

SpecTwice == TwiceInit /\ [][TwiceNext]_vars

\* The writes with the value of BUILT_TIME_UTC blanked.
SansTime(toks) ==
    [i \in DOMAIN toks |->
        IF toks[i][1] = "const" /\ toks[i][2] = "BUILT_TIME_UTC"
        THEN Const("BUILT_TIME_UTC", <<"str", "">>) ELSE toks[i]]

\* C14: when both runs have ended they have ended alike, and what the
\* second wrote, which is what the file then holds, is what the first
\* wrote but for the value of BUILT_TIME_UTC: whatever the order in which
\* each run's environment map yielded its keys, and whatever the order of
\* the packages in the lock file each run read.
C14_Deterministic ==
    (pc["a"] = "done" /\ pc["b"] = "done") =>
        /\ result["a"] = result["b"]
        /\ SansTime(written["a"]) = SansTime(written["b"])
        /\ is_some(built_file["b"]) => fs_file = written["b"]

\* Two successful runs that declared FEATURES and DEPENDENCIES, the second
\* from a reordered lock file and at another time.
C14_Witness ==
    /\ is_ok(result["a"]) /\ is_ok(result["b"])
    /\ cargo_lock # Unseen /\ cargo_lock \notin LockFiles
    /\ written["a"] # written["b"]
    /\ Declared(written["b"], "FEATURES") # {}
    /\ Declared(written["b"], "DEPENDENCIES") # {}

----------------------------------------------------------------------------
(* Two build scripts at once: both call write_built_file_with_opts for the  *)
(* same dst, and their statements interleave.                               *)

\* The switches of the two runs: the defaults, or the time alone.
ConcOptions ==
    {Options_default,
     [compiler |-> FALSE, git |-> FALSE, ci |-> FALSE, env |-> FALSE,
      deps |-> TRUE, features |-> FALSE, time |-> TRUE]}

ConcInit ==
    /\ CIIdle /\ DepsIdle
    /\ fs_file = NoFile
    /\ fs_creatable = TRUE
    /\ fs_full = FALSE
    /\ options \in ConcOptions
    /\ cfg = [serialized_git |-> TRUE, serialized_time |-> TRUE]
    /\ environ \in {e \in Environments : DOMAIN CargoEnv \subseteq DOMAIN e}
    /\ pc = [r \in Runs |-> "create"]
    /\ built_file = [r \in Runs |-> None]
    /\ result = [r \in Runs |-> Running]
    /\ written = [r \in Runs |-> <<>>]
    /\ spawned = [r \in Runs |-> <<>>]
    /\ repo = Unseen
    /\ cargo_lock = Unseen
    /\ tools = [exe \in Executables |-> Unseen]
    /\ script = <<"write_built_file_with_opts">>

SpecConc == ConcInit /\ [][Next]_vars

\* C15 as stated: when both runs have ended they have not both succeeded,
\* and if one has succeeded the other has failed with the already-exists
\* error and the file holds the writes of the successful run only.
C15_AtMostOneSucceeds ==
    (\A r \in Runs : pc[r] = "done") =>
        /\ \E r \in Runs : ~is_ok(result[r])
        /\ \A r \in Runs :
              is_ok(result[r]) =>
                  /\ \A q \in Runs \ {r} : result[q] = Err("AlreadyExists")
                  /\ fs_file = written[r]

----------------------------------------------------------------------------
(* The build script: it takes Options::default(), calls setters on it and   *)
(* hands it to write_built_file_with_opts, or calls write_built_file.       *)

\* The two variables write_built_file reads, of which OUT_DIR may be unset.
ScriptEnvironments ==
    {[k \in DOMAIN e \cup dirs |->
        IF k \in DOMAIN e THEN e[k] ELSE "/tmp/testbox"] :
        e \in {x \in Environments : DOMAIN CargoEnv \subseteq DOMAIN x},
        dirs \in {{"CARGO_MANIFEST_DIR", "OUT_DIR"}, {"CARGO_MANIFEST_DIR"}}}

ScriptInit ==
    /\ CIIdle /\ DepsIdle
    /\ fs_file = NoFile
    /\ fs_creatable = TRUE
    /\ fs_full = FALSE
    /\ options = Options_default
    /\ cfg \in [serialized_git : BOOLEAN, serialized_time : BOOLEAN]
    /\ environ \in ScriptEnvironments
    /\ pc = [r \in Runs |-> IF r = "a" THEN "script" ELSE "off"]
    /\ built_file = [r \in Runs |-> None]
    /\ result = [r \in Runs |-> Running]
    /\ written = [r \in Runs |-> <<>>]
    /\ spawned = [r \in Runs |-> <<>>]
    /\ repo = Unseen
    /\ cargo_lock = Unseen
    /\ tools = [exe \in Executables |-> Unseen]
    /\ script = <<"Options::default">>

\* A call of the build script that leaves it in the script: a setter.
Configure(call, opts) ==
    /\ options' = opts
    /\ script' = call
    /\ UNCHANGED <<fs_file, fs_creatable, fs_full, cfg, environ, pc,
                   built_file, result, written, spawned>>
    /\ UNCHANGED world_vars
    /\ UNCHANGED ci_vars /\ UNCHANGED deps_vars

SetCompiler(enabled) ==
    /\ pc["a"] = "script"
    /\ Configure(<<"set_compiler", enabled>>, set_compiler(options, enabled))
\* #[cfg(feature="serialized_git")]
SetGit(enabled) ==
    /\ pc["a"] = "script"
    /\ cfg.serialized_git
    /\ Configure(<<"set_git", enabled>>, set_git(options, enabled))
SetCi(enabled) ==
    /\ pc["a"] = "script"
    /\ Configure(<<"set_ci", enabled>>, set_ci(options, enabled))
SetEnv(enabled) ==
    /\ pc["a"] = "script"
    /\ Configure(<<"set_env", enabled>>, set_env(options, enabled))
SetDependencies(enabled) ==
    /\ pc["a"] = "script"
    /\ Configure(<<"set_dependencies", enabled>>, set_dependencies(options, enabled))
SetFeatures(enabled) ==
    /\ pc["a"] = "script"
    /\ Configure(<<"set_features", enabled>>, set_features(options, enabled))
\* #[cfg(feature="serialized_time")]
SetTime(enabled) ==
    /\ pc["a"] = "script"
    /\ cfg.serialized_time
    /\ Configure(<<"set_time", enabled>>, set_time(options, enabled))

\* built::write_built_file_with_opts(&opts, src, dst)
WriteBuiltFileWithOpts ==
    /\ pc["a"] = "script"
    /\ pc' = [pc EXCEPT !["a"] = "create"]
    /\ script' = <<"write_built_file_with_opts">>
    /\ UNCHANGED <<fs_file, fs_creatable, fs_full, options, cfg, environ,
                   built_file, result, written, spawned>>
    /\ UNCHANGED world_vars
    /\ UNCHANGED ci_vars /\ UNCHANGED deps_vars

\* built::write_built_file(): unwrap of the two variables, then
\* write_built_file_with_opts(&Options::default(), &src, &dst)
WriteBuiltFile ==
    /\ pc["a"] = "script"
    /\ script' = <<"write_built_file">>
    /\ IF {"CARGO_MANIFEST_DIR", "OUT_DIR"} \subseteq DOMAIN environ
       THEN /\ options' = Options_default
            /\ pc' = [pc EXCEPT !["a"] = "create"]
            /\ UNCHANGED result
       ELSE /\ Return("a", Panic)
            /\ UNCHANGED options
    /\ UNCHANGED <<fs_file, fs_creatable, fs_full, cfg, environ,
                   built_file, written, spawned>>
    /\ UNCHANGED world_vars
    /\ UNCHANGED ci_vars /\ UNCHANGED deps_vars

ScriptNext ==
    \/ \E enabled \in BOOLEAN :
          \/ SetCompiler(enabled)
          \/ SetGit(enabled)
          \/ SetCi(enabled)
          \/ SetEnv(enabled)
          \/ SetDependencies(enabled)
          \/ SetFeatures(enabled)
          \/ SetTime(enabled)
    \/ WriteBuiltFileWithOpts
    \/ WriteBuiltFile
    \/ Next

SpecScript == ScriptInit /\ [][ScriptNext]_vars

\* The switch each setter is named after.
SwitchOf ==
    [set_compiler |-> "compiler", set_git |-> "git", set_ci |-> "ci",
     set_env |-> "env", set_dependencies |-> "deps",
     set_features |-> "features", set_time |-> "time"]

\* The run has entered write_built_file_with_opts (where dst can be
\* created, a run that has ended holds a handle).
Entered(r) ==
    /\ pc[r] \notin {"off", "script"}
    /\ pc[r] = "done" => is_some(built_file[r])

\* C16: Options::default(), and the Options of a run started through
\* write_built_file, have compiler, git, ci, env, features and time on and
\* deps off; such a run never opens the lock file and never declares
\* DEPENDENCIES or DEPENDENCIES_STR; and a setter call leaves the switch it
\* is named after as its argument says and every other switch as it was.
C16_Defaults ==
    /\ []((script = <<"Options::default">>
              \/ (script = <<"write_built_file">> /\ Entered("a")))
            => options = [compiler |-> TRUE, git |-> TRUE, ci |-> TRUE,
                          env |-> TRUE, features |-> TRUE, time |-> TRUE,
                          deps |-> FALSE])
    /\ []((script = <<"write_built_file">> /\ Entered("a"))
            => /\ cargo_lock = Unseen
               /\ Declared(written["a"], "DEPENDENCIES") = {}
               /\ Declared(written["a"], "DEPENDENCIES_STR") = {})
    /\ [][(pc'["a"] = "script")
            => \A switch \in DOMAIN options :
                  options'[switch] =
                      IF switch = SwitchOf[script'[1]] THEN script'[2]
                      ELSE options[switch]]_vars

\* A run through write_built_file that returned Ok: the whole block, with
\* the compiler versions and the time, without DEPENDENCIES.
C16_Witness ==
    /\ script = <<"write_built_file">>
    /\ is_ok(result["a"])
    /\ CompleteBlock(fs_file)
    /\ Declared(fs_file, "RUSTC_VERSION") # {}
    /\ Declared(fs_file, "BUILT_TIME_UTC") # {}
    /\ Declared(fs_file, "DEPENDENCIES") = {}

====
